---- MODULE Spec2Model ----
(***************************************************************************)
(* A model of HW_2_BatchProcessing.py: the batch report over the yellow    *)
(* and green taxi trip data.  A dataframe is a sequence of rows, a row is  *)
(* a function from column names to nullable values, and a nullable value   *)
(* is <<>> (SQL NULL) or <<v>>.  Row order inside a dataframe carries no   *)
(* meaning: wherever the engine leaves the order among equal sort keys     *)
(* open, the model takes every order.                                      *)
(***************************************************************************)
EXTENDS Integers, Sequences, FiniteSets, TLC

VARIABLES
    pc,                     \* the driver's position in the __main__ block
    lookup_df,              \* taxi+_zone_lookup.csv
    yellow_taxi_df,         \* yellow_tripdata_2021-03.parquet
    green_taxi_df,          \* green_tripdata_2021-03.parquet
    yellow_taxi_enriched,
    green_taxi_enriched,
    yellow_taxi_cleaned,
    green_taxi_cleaned,
    hourly_pickup,          \* yellow_/green_hourly_pickup of the last call
    hourly_dropoff,         \* yellow_/green_hourly_dropoff of the last call
    tip_correlations,       \* yellow_/green_tip_correlations of the last call
    agg_call,               \* the last aggregator call: its name, dataset and argument
    console,                \* the block the last step wrote to the console
    files,                  \* the image files written so far
    raised                  \* the exception that ended the run, or "none"

vars == <<pc, lookup_df, yellow_taxi_df, green_taxi_df, yellow_taxi_enriched,
          green_taxi_enriched, yellow_taxi_cleaned, green_taxi_cleaned,
          hourly_pickup, hourly_dropoff, tip_correlations, agg_call, console,
          files, raised>>

----------------------------------------------------------------------------
(* Nullable values and SQL's three-valued logic                            *)

Null == <<>>

Some(v) == <<v>>

Min(a, b) == IF a <= b THEN a ELSE b

\* col > n: NULL when the column is NULL
SqlGt(x, n) == IF x = Null THEN "null" ELSE IF x[1] > n THEN "true" ELSE "false"

\* col < n
SqlLt(x, n) == IF x = Null THEN "null" ELSE IF x[1] < n THEN "true" ELSE "false"

\* a == b between two columns
SqlEq(x, y) ==
    IF x = Null \/ y = Null THEN "null"
    ELSE IF x[1] = y[1] THEN "true" ELSE "false"

\* a & b (Kleene conjunction)
SqlAnd(a, b) ==
    IF a = "false" \/ b = "false" THEN "false"
    ELSE IF a = "null" \/ b = "null" THEN "null"
    ELSE "true"

\* the hours since the epoch midnight, not wrapped at the end of the day
hoursSinceEpoch(ts) == IF ts = Null THEN Null ELSE Some(ts[1] \div 3600)

\* hour(col): the hour of day of a timestamp held as seconds since an epoch midnight
hour(ts) == IF ts = Null THEN Null ELSE Some((ts[1] \div 3600) % 24)

----------------------------------------------------------------------------
(* join_look_up_with_cities                                                *)

\* an inner join in place of the left join: rows without a match are dropped
RECURSIVE InnerJoinLookup(_, _, _, _, _)
InnerJoinLookup(df, lookup, key, zone_col, borough_col) ==
    IF df = <<>> THEN <<>>
    ELSE LET r == Head(df)
             m == SelectSeq(lookup, LAMBDA l : SqlEq(r[key], l.LocationID) = "true")
         IN  [i \in 1..Len(m) |->
                 r @@ (zone_col :> m[i].Zone) @@ (borough_col :> m[i].Borough)]
             \o InnerJoinLookup(Tail(df), lookup, key, zone_col, borough_col)

\* one left join against the lookup, with Zone and Borough renamed and the key dropped
RECURSIVE LeftJoinLookup(_, _, _, _, _)
LeftJoinLookup(df, lookup, key, zone_col, borough_col) ==
    IF df = <<>> THEN <<>>
    ELSE LET r == Head(df)
             m == SelectSeq(lookup, LAMBDA l : SqlEq(r[key], l.LocationID) = "true")
             rows == IF m = <<>>
                     THEN << r @@ (zone_col :> Null) @@ (borough_col :> Null) >>
                     ELSE [i \in 1..Len(m) |->
                              r @@ (zone_col :> m[i].Zone) @@ (borough_col :> m[i].Borough)]
         IN  rows \o LeftJoinLookup(Tail(df), lookup, key, zone_col, borough_col)

\* both joins keyed on the pickup identifier
join_both_on_pickup(df, lookup) ==
    LeftJoinLookup(LeftJoinLookup(df, lookup, "PULocationID", "PU_Zone", "PU_Borough"),
                   lookup, "PULocationID", "DO_Zone", "DO_Borough")

join_look_up_with_cities(df, lookup) ==
    LeftJoinLookup(LeftJoinLookup(df, lookup, "PULocationID", "PU_Zone", "PU_Borough"),
                   lookup, "DOLocationID", "DO_Zone", "DO_Borough")

----------------------------------------------------------------------------
(* clean_data                                                              *)

\* the condition with the upper distance limit taken as inclusive
CleanConditionInclusive(r) ==
    SqlAnd(SqlAnd(SqlAnd(SqlAnd(SqlGt(r.fare_amount, 0),
                                SqlGt(r.total_amount, 0)),
                         SqlGt(r.trip_distance, 0)),
                  SqlLt(r.trip_distance, 1001)),
           SqlGt(r.passenger_count, 0))

CleanCondition(r) ==
    SqlAnd(SqlAnd(SqlAnd(SqlAnd(SqlGt(r.fare_amount, 0),
                                SqlGt(r.total_amount, 0)),
                         SqlGt(r.trip_distance, 0)),
                  SqlLt(r.trip_distance, 1000)),
           SqlGt(r.passenger_count, 0))

clean_data(df) == SelectSeq(df, LAMBDA r : CleanCondition(r) = "true")

----------------------------------------------------------------------------
(* Ordering, grouping and display                                          *)

\* x sorts strictly before y under col.desc() (NULLs last)
DescBefore(x, y) == x # Null /\ (y = Null \/ x[1] > y[1])

\* x sorts strictly before y under an ascending column (NULLs first)
AscBefore(x, y) == y # Null /\ (x = Null \/ x[1] < y[1])

\* the values of column c in df
ColumnValues(df, c) == { df[i][c] : i \in 1..Len(df) }

\* The first n rows of the rows S in every order that respects `before`, a set of
\* pairs <<a, b>> (a sorts strictly before b); rows it leaves unordered come in any order.
RECURSIVE Ranked(_, _, _)
Ranked(S, before, n) ==
    IF S = {} \/ n = 0 THEN { <<>> }
    ELSE UNION { { <<x>> \o t : t \in Ranked(S \ {x}, before, n - 1) } :
                 x \in { y \in S : \A z \in S : <<z, y>> \notin before } }

\* first() under an ascending sort (NULLs first)
FirstByAsc(df, c) ==
    { df[i] : i \in { k \in 1..Len(df) :
                        \A j \in 1..Len(df) : ~AscBefore(df[j][c], df[k][c]) } }

\* df.first(): the rows that can come first under orderBy(col(c).desc())
FirstByDesc(df, c) ==
    { df[i] : i \in { k \in 1..Len(df) :
                        \A j \in 1..Len(df) : ~DescBefore(df[j][c], df[k][c]) } }

----------------------------------------------------------------------------
(* The aggregators                                                         *)

\* get_most_expensive_route: the rows first() can return, projected; {} stands
\* for first() returning None
get_most_expensive_route(df) ==
    { [PU_Zone |-> r.PU_Zone, DO_Zone |-> r.DO_Zone, fare_amount |-> r.fare_amount] :
      r \in FirstByDesc(df, "fare_amount") }

\* get_longest_trips
get_longest_trips(df) ==
    { [PU_Zone |-> r.PU_Zone, DO_Zone |-> r.DO_Zone, trip_distance |-> r.trip_distance] :
      r \in FirstByDesc(df, "trip_distance") }

\* groupBy("PU_Zone").count()
ZoneCounts(df) ==
    { [PU_Zone |-> z, count |-> Len(SelectSeq(df, LAMBDA r : r.PU_Zone = z))] :
      z \in ColumnValues(df, "PU_Zone") }

\* the five zones with the fewest pickups
get_bottom_5_area(df) ==
    LET groups == ZoneCounts(df)
        before == { p \in groups \X groups : p[1].count < p[2].count }
    IN  Ranked(groups, before, 5)

\* get_top_5_busiest_area: the tables that .orderBy(col("count").desc()).limit(5) can give
get_top_5_busiest_area(df) ==
    LET groups == ZoneCounts(df)
        before == { p \in groups \X groups : p[1].count > p[2].count }
    IN  Ranked(groups, before, 5)

\* groupBy(hour(col(time_col)).alias("Hour"), zone_col).count()
HourZoneCounts(df, time_col, zone_col) ==
    { [Hour |-> k[1], Zone |-> k[2],
       count |-> Len(SelectSeq(df, LAMBDA r : hour(r[time_col]) = k[1] /\ r[zone_col] = k[2]))] :
      k \in { <<hour(df[i][time_col]), df[i][zone_col]>> : i \in 1..Len(df) } }

\* one side of get_crowded_places_per_hour: what show(10) can print of
\* .orderBy(col("Hour"), col("count").desc())
CrowdedShown(df, time_col, zone_col) ==
    LET groups == HourZoneCounts(df, time_col, zone_col)
        before == { p \in groups \X groups :
                      \/ AscBefore(p[1].Hour, p[2].Hour)
                      \/ p[1].Hour = p[2].Hour /\ p[1].count > p[2].count }
    IN  Ranked(groups, before, 10)

\* get_crowded_places_per_hour: the pickup and the drop-off print-out
get_crowded_places_per_hour(df, pickup_col, dropoff_col) ==
    { [pickup |-> p, dropoff |-> d] :
      p \in CrowdedShown(df, pickup_col, "PU_Zone"),
      d \in CrowdedShown(df, dropoff_col, "DO_Zone") }

\* hourly counts that leave out the rows without a timestamp
HourlyCountsOfTimed(df, time_col) ==
    LET groups == { [Hour |-> h,
                     count |-> Len(SelectSeq(df, LAMBDA r : hour(r[time_col]) = h))] :
                    h \in { hour(df[i][time_col]) : i \in 1..Len(df) } \ {Null} }
        before == { p \in groups \X groups : AscBefore(p[1].Hour, p[2].Hour) }
    IN  CHOOSE t \in Ranked(groups, before, Cardinality(groups)) : TRUE

\* groupBy(hour(col(time_col)).alias("Hour")).count().orderBy("Hour")
HourlyCounts(df, time_col) ==
    LET groups == { [Hour |-> h,
                     count |-> Len(SelectSeq(df, LAMBDA r : hour(r[time_col]) = h))] :
                    h \in { hour(df[i][time_col]) : i \in 1..Len(df) } }
        before == { p \in groups \X groups : AscBefore(p[1].Hour, p[2].Hour) }
    IN  CHOOSE t \in Ranked(groups, before, Cardinality(groups)) : TRUE

\* get_hourly_pickup_dropoff_counts
get_hourly_pickup_dropoff_counts(df, pickup_col, dropoff_col) ==
    [hourly_pickup |-> HourlyCounts(df, pickup_col),
     hourly_dropoff |-> HourlyCounts(df, dropoff_col)]

RECURSIVE SumProducts(_, _, _)
SumProducts(df, a, b) ==
    IF df = <<>> THEN 0
    ELSE Head(df)[a][1] * Head(df)[b][1] + SumProducts(Tail(df), a, b)

RECURSIVE SumColumn(_, _)
SumColumn(df, a) ==
    IF df = <<>> THEN 0 ELSE Head(df)[a][1] + SumColumn(Tail(df), a)

\* df.stat.corr(a, b): the Pearson coefficient is cov / sqrt(var_a * var_b); the
\* model keeps the three integers n*Sxy - Sx*Sy, n*Sxx - Sx^2, n*Syy - Sy^2 and
\* reports "nan" when a variance is zero.  What the engine does with a NULL in
\* either column depends on its version.
corr(df, a, b) ==
    IF \E i \in 1..Len(df) : df[i][a] = Null \/ df[i][b] = Null THEN [value |-> "engine_defined"]
    ELSE LET n   == Len(df)
             cov == n * SumProducts(df, a, b) - SumColumn(df, a) * SumColumn(df, b)
             va  == n * SumProducts(df, a, a) - SumColumn(df, a) * SumColumn(df, a)
             vb  == n * SumProducts(df, b, b) - SumColumn(df, b) * SumColumn(df, b)
         IN  IF va = 0 \/ vb = 0 THEN [value |-> "nan"]
             ELSE [value |-> "number", cov |-> cov, var_a |-> va, var_b |-> vb]

numeric_columns == <<"trip_distance", "fare_amount", "total_amount", "passenger_count">>

\* calculate_tip_correlations
calculate_tip_correlations(df) ==
    [c \in { numeric_columns[i] : i \in 1..Len(numeric_columns) } |->
        corr(df, "tip_amount", c)]

\* DataFrame.show(n): the first n rows
Show(rows, n) == SubSeq(rows, 1, Min(n, Len(rows)))

----------------------------------------------------------------------------
(* The driver (__main__)                                                   *)

\* a driver that hands the green aggregators the enriched, uncleaned set
AggregatorInputEnriched(dataset) ==
    IF dataset = "yellow" THEN yellow_taxi_cleaned ELSE green_taxi_enriched

\* the dataframe the driver hands to the aggregators of a dataset
AggregatorInput(dataset) ==
    IF dataset = "yellow" THEN yellow_taxi_cleaned ELSE green_taxi_cleaned

\* the timestamp columns the driver names for a dataset
PickupColumn(dataset) ==
    IF dataset = "yellow" THEN "tpep_pickup_datetime" ELSE "lpep_pickup_datetime"

DropoffColumn(dataset) ==
    IF dataset = "yellow" THEN "tpep_dropoff_datetime" ELSE "lpep_dropoff_datetime"

Abort(exception, title) ==
    /\ raised' = exception
    /\ pc' = "aborted"
    /\ console' = [title |-> title, body |-> <<>>]

JoinYellow ==
    /\ pc = "join_yellow"
    /\ yellow_taxi_enriched' = join_look_up_with_cities(yellow_taxi_df, lookup_df)
    /\ pc' = "join_green"
    /\ UNCHANGED <<lookup_df, yellow_taxi_df, green_taxi_df, green_taxi_enriched,
                   yellow_taxi_cleaned, green_taxi_cleaned, hourly_pickup, hourly_dropoff,
                   tip_correlations, agg_call, console, files, raised>>

JoinGreen ==
    /\ pc = "join_green"
    /\ green_taxi_enriched' = join_look_up_with_cities(green_taxi_df, lookup_df)
    /\ pc' = "clean_yellow"
    /\ UNCHANGED <<lookup_df, yellow_taxi_df, green_taxi_df, yellow_taxi_enriched,
                   yellow_taxi_cleaned, green_taxi_cleaned, hourly_pickup, hourly_dropoff,
                   tip_correlations, agg_call, console, files, raised>>

CleanYellow ==
    /\ pc = "clean_yellow"
    /\ yellow_taxi_cleaned' = clean_data(yellow_taxi_enriched)
    /\ pc' = "clean_green"
    /\ UNCHANGED <<lookup_df, yellow_taxi_df, green_taxi_df, yellow_taxi_enriched,
                   green_taxi_enriched, green_taxi_cleaned, hourly_pickup, hourly_dropoff,
                   tip_correlations, agg_call, console, files, raised>>

CleanGreen ==
    /\ pc = "clean_green"
    /\ green_taxi_cleaned' = clean_data(green_taxi_enriched)
    /\ pc' = "yellow_most_expensive_route"
    /\ UNCHANGED <<lookup_df, yellow_taxi_df, green_taxi_df, yellow_taxi_enriched,
                   green_taxi_enriched, yellow_taxi_cleaned, hourly_pickup, hourly_dropoff,
                   tip_correlations, agg_call, console, files, raised>>

\* print(title); get_most_expensive_route(df): subscripting the None that first()
\* returns on an empty dataframe raises TypeError
MostExpensiveRouteStep(dataset, title, next) ==
    LET df == AggregatorInput(dataset)
    IN  /\ agg_call' = [fn |-> "get_most_expensive_route", dataset |-> dataset, df |-> df]
        /\ IF get_most_expensive_route(df) = {}
           THEN Abort("TypeError", title)
           ELSE /\ \E row \in get_most_expensive_route(df) :
                       console' = [title |-> title, body |-> row]
                /\ pc' = next
                /\ UNCHANGED raised
        /\ UNCHANGED <<lookup_df, yellow_taxi_df, green_taxi_df, yellow_taxi_enriched,
                       green_taxi_enriched, yellow_taxi_cleaned, green_taxi_cleaned,
                       hourly_pickup, hourly_dropoff, tip_correlations, files>>

YellowMostExpensiveRoute ==
    /\ pc = "yellow_most_expensive_route"
    /\ MostExpensiveRouteStep("yellow", "Yellow Taxi Most Expensive Route:",
                              "green_most_expensive_route")

GreenMostExpensiveRoute ==
    /\ pc = "green_most_expensive_route"
    /\ MostExpensiveRouteStep("green", "Green Taxi Most Expensive Route:", "yellow_top_5")

\* print(title); get_top_5_busiest_area(df).  show() cuts a cell longer than 20
\* characters; the zone names of the model are shorter.
Top5Step(dataset, title, next) ==
    LET df == AggregatorInput(dataset)
    IN  /\ agg_call' = [fn |-> "get_top_5_busiest_area", dataset |-> dataset, df |-> df]
        /\ \E table \in get_top_5_busiest_area(df) :
               console' = [title |-> title, body |-> Show(table, 20)]
        /\ pc' = next
        /\ UNCHANGED <<lookup_df, yellow_taxi_df, green_taxi_df, yellow_taxi_enriched,
                       green_taxi_enriched, yellow_taxi_cleaned, green_taxi_cleaned,
                       hourly_pickup, hourly_dropoff, tip_correlations, files, raised>>

YellowTop5 ==
    /\ pc = "yellow_top_5"
    /\ Top5Step("yellow", "Yellow Taxi Top 5 Busiest Zones:", "green_top_5")

GreenTop5 ==
    /\ pc = "green_top_5"
    /\ Top5Step("green", "Green Taxi Top 5 Busiest Zones:", "yellow_longest_trip")

\* print(title); get_longest_trips(df)
LongestTripStep(dataset, title, next) ==
    LET df == AggregatorInput(dataset)
    IN  /\ agg_call' = [fn |-> "get_longest_trips", dataset |-> dataset, df |-> df]
        /\ IF get_longest_trips(df) = {}
           THEN Abort("TypeError", title)
           ELSE /\ \E row \in get_longest_trips(df) :
                       console' = [title |-> title, body |-> row]
                /\ pc' = next
                /\ UNCHANGED raised
        /\ UNCHANGED <<lookup_df, yellow_taxi_df, green_taxi_df, yellow_taxi_enriched,
                       green_taxi_enriched, yellow_taxi_cleaned, green_taxi_cleaned,
                       hourly_pickup, hourly_dropoff, tip_correlations, files>>

YellowLongestTrip ==
    /\ pc = "yellow_longest_trip"
    /\ LongestTripStep("yellow", "Yellow Taxi Longest Trip:", "green_longest_trip")

GreenLongestTrip ==
    /\ pc = "green_longest_trip"
    /\ LongestTripStep("green", "Green Taxi Longest Trip:", "yellow_crowded_places")

\* print(title); get_crowded_places_per_hour(df, pickup_col, dropoff_col)
CrowdedPlacesStep(dataset, title, next) ==
    LET df == AggregatorInput(dataset)
    IN  /\ agg_call' = [fn |-> "get_crowded_places_per_hour", dataset |-> dataset, df |-> df]
        /\ \E shown \in get_crowded_places_per_hour(df, PickupColumn(dataset),
                                                    DropoffColumn(dataset)) :
               console' = [title |-> title, body |-> shown]
        /\ pc' = next
        /\ UNCHANGED <<lookup_df, yellow_taxi_df, green_taxi_df, yellow_taxi_enriched,
                       green_taxi_enriched, yellow_taxi_cleaned, green_taxi_cleaned,
                       hourly_pickup, hourly_dropoff, tip_correlations, files, raised>>

YellowCrowdedPlaces ==
    /\ pc = "yellow_crowded_places"
    /\ CrowdedPlacesStep("yellow", "Yellow Taxi Crowded Places Per Hour:",
                         "green_crowded_places")

GreenCrowdedPlaces ==
    /\ pc = "green_crowded_places"
    /\ CrowdedPlacesStep("green", "Green Taxi Crowded Places Per Hour:",
                         "yellow_hourly_counts")

\* print(title); get_hourly_pickup_dropoff_counts(...); the two show() calls
HourlyCountsStep(dataset, title, next) ==
    LET df == AggregatorInput(dataset)
        result == get_hourly_pickup_dropoff_counts(df, PickupColumn(dataset),
                                                   DropoffColumn(dataset))
    IN  /\ agg_call' = [fn |-> "get_hourly_pickup_dropoff_counts", dataset |-> dataset,
                        df |-> df]
        /\ hourly_pickup' = result.hourly_pickup
        /\ hourly_dropoff' = result.hourly_dropoff
        /\ console' = [title |-> title,
                       body |-> [pickup |-> Show(result.hourly_pickup, 20),
                                 dropoff |-> Show(result.hourly_dropoff, 20)]]
        /\ pc' = next
        /\ UNCHANGED <<lookup_df, yellow_taxi_df, green_taxi_df, yellow_taxi_enriched,
                       green_taxi_enriched, yellow_taxi_cleaned, green_taxi_cleaned,
                       tip_correlations, files, raised>>

\* plot_hourly_counts(...) and plot_correlations(...): plt.savefig(output_path)
PlotStep(output_path, next) ==
    /\ files' = files \cup {output_path}
    /\ pc' = next
    /\ UNCHANGED <<lookup_df, yellow_taxi_df, green_taxi_df, yellow_taxi_enriched,
                   green_taxi_enriched, yellow_taxi_cleaned, green_taxi_cleaned,
                   hourly_pickup, hourly_dropoff, tip_correlations, agg_call, console,
                   raised>>

YellowHourlyCounts ==
    /\ pc = "yellow_hourly_counts"
    /\ HourlyCountsStep("yellow", "Yellow Taxi Hourly Pickup and Drop-off Counts:",
                        "yellow_plot_hourly")

YellowPlotHourly ==
    /\ pc = "yellow_plot_hourly"
    /\ PlotStep("yellow_taxi_hourly_counts.png", "green_hourly_counts")

GreenHourlyCounts ==
    /\ pc = "green_hourly_counts"
    /\ HourlyCountsStep("green", "Green Taxi Hourly Pickup and Drop-off Counts:",
                        "green_plot_hourly")

GreenPlotHourly ==
    /\ pc = "green_plot_hourly"
    /\ PlotStep("green_taxi_hourly_counts.png", "yellow_tip_correlations")

\* print(title); calculate_tip_correlations(df)
TipCorrelationsStep(dataset, title, next) ==
    LET df == AggregatorInput(dataset)
    IN  /\ agg_call' = [fn |-> "calculate_tip_correlations", dataset |-> dataset, df |-> df]
        /\ tip_correlations' = calculate_tip_correlations(df)
        /\ console' = [title |-> title, body |-> calculate_tip_correlations(df)]
        /\ pc' = next
        /\ UNCHANGED <<lookup_df, yellow_taxi_df, green_taxi_df, yellow_taxi_enriched,
                       green_taxi_enriched, yellow_taxi_cleaned, green_taxi_cleaned,
                       hourly_pickup, hourly_dropoff, files, raised>>

YellowTipCorrelations ==
    /\ pc = "yellow_tip_correlations"
    /\ TipCorrelationsStep("yellow", "Yellow Taxi Tip Correlations:", "yellow_plot_correlations")

YellowPlotCorrelations ==
    /\ pc = "yellow_plot_correlations"
    /\ PlotStep("yellow_taxi_tip_correlations.png", "green_tip_correlations")

GreenTipCorrelations ==
    /\ pc = "green_tip_correlations"
    /\ TipCorrelationsStep("green", "Green Taxi Tip Correlations:", "green_plot_correlations")

GreenPlotCorrelations ==
    /\ pc = "green_plot_correlations"
    /\ PlotStep("green_taxi_tip_correlations.png", "done")

----------------------------------------------------------------------------
(* Inputs: the files the driver loads                                      *)

MaxRows == 3

\* a trip row of the yellow (tpep_*) or the green (lpep_*) parquet file
Trip(dataset, pu, do, pickup, dropoff, fare, total, distance, passengers, tip) ==
    [PULocationID |-> pu, DOLocationID |-> do, fare_amount |-> fare,
     total_amount |-> total, trip_distance |-> distance,
     passenger_count |-> passengers, tip_amount |-> tip]
    @@ (IF dataset = "yellow"
        THEN [tpep_pickup_datetime |-> pickup, tpep_dropoff_datetime |-> dropoff]
        ELSE [lpep_pickup_datetime |-> pickup, lpep_dropoff_datetime |-> dropoff])

\* a row of the zone lookup csv
Zone(id, zone, borough) == [LocationID |-> id, Zone |-> zone, Borough |-> borough]

\* all sequences over S of length at most n
SeqsUpTo(S, n) == UNION { [1..k -> S] : k \in 0..n }

\* a lookup with unique identifiers; location 4 is not in it
ZoneLookup ==
    << Zone(Some(1), Some("A"), Some("X")),
       Zone(Some(2), Some("B"), Some("X")),
       Zone(Some(3), Some("C"), Some("Y")) >>

\* two valid trips
ReferenceTrips(dataset) ==
    << Trip(dataset, Some(1), Some(2), Some(600), Some(1500), Some(10), Some(12),
            Some(2), Some(1), Some(2)),
       Trip(dataset, Some(2), Some(1), Some(4000), Some(7300), Some(50), Some(55),
            Some(3), Some(2), Some(5)) >>

\* trips for the reports: fares 10, 50, 5 with distances 2, 3, 800, a second trip
\* with fare 50, and two trips the Cleaner removes that carry the highest fares
ReportTrips(dataset) ==
    ReferenceTrips(dataset) \o
    << Trip(dataset, Some(3), Some(1), Some(7900), Some(8000), Some(5), Some(6),
            Some(800), Some(1), Some(1)),
       Trip(dataset, Some(3), Some(4), Some(4100), Some(4200), Some(50), Some(60),
            Some(3), Some(1), Some(0)),
       Trip(dataset, Some(1), Some(3), Some(86000), Some(86500), Some(90), Some(95),
            Some(1000), Some(1), Some(9)),
       Trip(dataset, Some(2), Some(3), Some(90000), Some(90100), Some(70), Some(75),
            Some(4), Some(0), Some(7)) >>

\* single trips over every combination of the four validated columns, with the
\* other columns all set or all NULL
ValidationTrips(dataset) ==
    { Trip(dataset, o[1], o[1], o[2], o[2], fare, total, distance, passengers, o[3]) :
        fare \in {Null, Some(0), Some(10)},
        total \in {Null, Some(0), Some(12)},
        distance \in {Null, Some(0), Some(3), Some(999), Some(1000)},
        passengers \in {Null, Some(0), Some(1)},
        o \in { <<Null, Null, Null>>, <<Some(1), Some(600), Some(2)>> } }

ReportInputs(dataset) ==
    { <<t>> : t \in ValidationTrips(dataset) }
    \cup SeqsUpTo({ ReportTrips(dataset)[i] : i \in 1..Len(ReportTrips(dataset)) }, MaxRows)

\* the state after the three reads, before the first join
Loaded(lookup, yellow, green) ==
    /\ pc = "join_yellow"
    /\ lookup_df = lookup
    /\ yellow_taxi_df = yellow
    /\ green_taxi_df = green
    /\ yellow_taxi_enriched = <<>>
    /\ green_taxi_enriched = <<>>
    /\ yellow_taxi_cleaned = <<>>
    /\ green_taxi_cleaned = <<>>
    /\ hourly_pickup = <<>>
    /\ hourly_dropoff = <<>>
    /\ tip_correlations = <<>>
    /\ agg_call = [fn |-> "none", dataset |-> "none", df |-> <<>>]
    /\ console = [title |-> "", body |-> <<>>]
    /\ files = {}
    /\ raised = "none"

\* one dataset varies over the report inputs while the other is the reference
Init ==
    \/ \E d \in ReportInputs("yellow") : Loaded(ZoneLookup, d, ReferenceTrips("green"))
    \/ \E d \in ReportInputs("green") : Loaded(ZoneLookup, ReferenceTrips("yellow"), d)

MaxLookupRows == 2

MaxJoinTrips == 1

\* lookup rows: identifier 1 twice with different zones, identifier 2, and a row
\* without identifier
LookupRows ==
    { Zone(Some(1), Some("A"), Some("X")), Zone(Some(1), Some("B"), Some("Y")),
      Zone(Some(2), Some("B"), Some("X")), Zone(Null, Some("C"), Some("Y")) }

\* valid trips over every pair of pickup and drop-off identifier, NULL included
JoinTrips(dataset) ==
    { Trip(dataset, pu, do, Some(600), Some(1500), Some(10), Some(12), Some(2),
           Some(1), Some(2)) :
        pu \in {Null, Some(1), Some(2)}, do \in {Null, Some(1), Some(2)} }

\* every lookup, duplicates and gaps included, against every small trip set
InitJoin ==
    \E lookup \in SeqsUpTo(LookupRows, MaxLookupRows) :
        \/ \E d \in SeqsUpTo(JoinTrips("yellow"), MaxJoinTrips) :
              Loaded(lookup, d, ReferenceTrips("green"))
        \/ \E d \in SeqsUpTo(JoinTrips("green"), MaxJoinTrips) :
              Loaded(lookup, ReferenceTrips("yellow"), d)


\* valid trips between the same two zones whose timestamps are NULL, at the
\* edges of an hour, at the end of a day and past it
HourlyTrips(dataset) ==
    { Trip(dataset, Some(1), Some(2), t[1], t[2], Some(10), Some(12), Some(2),
           Some(1), Some(2)) :
        t \in { <<Null, Some(100)>>, <<Some(0), Null>>, <<Some(3599), Some(3700)>>,
                <<Some(3600), Some(86399)>>, <<Some(86399), Some(86400)>>,
                <<Some(90000), Some(90100)>> } }

InitHourly ==
    \/ \E d \in SeqsUpTo(HourlyTrips("yellow"), MaxRows) :
          Loaded(ZoneLookup, d, ReferenceTrips("green"))
    \/ \E d \in SeqsUpTo(HourlyTrips("green"), MaxRows) :
          Loaded(ZoneLookup, ReferenceTrips("yellow"), d)


MaxZoneTrips == 2

\* a lookup with five zones; location 6 is not in it
FiveZoneLookup ==
    << Zone(Some(1), Some("A"), Some("X")), Zone(Some(2), Some("B"), Some("X")),
       Zone(Some(3), Some("C"), Some("Y")), Zone(Some(4), Some("D"), Some("Y")),
       Zone(Some(5), Some("E"), Some("Z")) >>

RECURSIVE Repeat(_, _)
Repeat(row, n) == IF n = 0 THEN <<>> ELSE <<row>> \o Repeat(row, n - 1)

\* trips[id] valid trips picked up at location id in hour id, for id = from..6
RECURSIVE ZoneTrips(_, _, _)
ZoneTrips(dataset, trips, from) ==
    IF from > 6 THEN <<>>
    ELSE Repeat(Trip(dataset, Some(from), Some(1), Some(from * 3600),
                     Some(from * 3600 + 600), Some(10), Some(12), Some(2), Some(1),
                     Some(2)),
                trips[from])
         \o ZoneTrips(dataset, trips, from + 1)

\* every number of trips up to MaxZoneTrips for each of six pickup locations:
\* up to six distinct PU_Zone values, NULL among them, with and without ties
InitTop ==
    \E trips \in [1..6 -> 0..MaxZoneTrips] :
        \/ Loaded(FiveZoneLookup, ZoneTrips("yellow", trips, 1), ReferenceTrips("green"))
        \/ Loaded(FiveZoneLookup, ReferenceTrips("yellow"), ZoneTrips("green", trips, 1))


\* id valid trips from location id to location id, for id = from..zones, picked
\* up in hour h and dropped off in the next hour
RECURSIVE HourTrips(_, _, _, _)
HourTrips(dataset, h, zones, from) ==
    IF from > zones THEN <<>>
    ELSE Repeat(Trip(dataset, Some(from), Some(from), Some(h * 3600 + 60),
                     Some(h * 3600 + 3660), Some(10), Some(12), Some(2), Some(1),
                     Some(2)),
                from)
         \o HourTrips(dataset, h, zones, from + 1)

\* trips in the hours 0, 1 and 2, in 0 to 6 zones per hour, busier zone by zone
CrowdedTrips(dataset, zones) ==
    HourTrips(dataset, 0, zones[0], 1) \o HourTrips(dataset, 1, zones[1], 1)
    \o HourTrips(dataset, 2, zones[2], 1)

InitCrowded ==
    \E zones \in [0..2 -> 0..6] :
        \/ Loaded(FiveZoneLookup, CrowdedTrips("yellow", zones), ReferenceTrips("green"))
        \/ Loaded(FiveZoneLookup, ReferenceTrips("yellow"), CrowdedTrips("green", zones))


Next ==
    \/ JoinYellow \/ JoinGreen \/ CleanYellow \/ CleanGreen
    \/ YellowMostExpensiveRoute \/ GreenMostExpensiveRoute
    \/ YellowTop5 \/ GreenTop5
    \/ YellowLongestTrip \/ GreenLongestTrip
    \/ YellowCrowdedPlaces \/ GreenCrowdedPlaces
    \/ YellowHourlyCounts \/ YellowPlotHourly
    \/ GreenHourlyCounts \/ GreenPlotHourly
    \/ YellowTipCorrelations \/ YellowPlotCorrelations
    \/ GreenTipCorrelations \/ GreenPlotCorrelations

Spec == Init /\ [][Next]_vars

SpecJoin == InitJoin /\ [][Next]_vars

SpecHourly == InitHourly /\ [][Next]_vars

SpecTop == InitTop /\ [][Next]_vars

SpecCrowded == InitCrowded /\ [][Next]_vars

----------------------------------------------------------------------------
(* Properties of the Cleaner and of the driver, under Spec                 *)

Aggregators ==
    {"get_most_expensive_route", "get_top_5_busiest_area", "get_longest_trips",
     "get_crowded_places_per_hour", "get_hourly_pickup_dropoff_counts",
     "calculate_tip_correlations"}

YellowCleaned == pc \notin {"join_yellow", "join_green", "clean_yellow"}

GreenCleaned == YellowCleaned /\ pc # "clean_green"

RawTrips(dataset) == IF dataset = "yellow" THEN yellow_taxi_df ELSE green_taxi_df

\* the validity condition in two-valued terms: each of the four columns is set
\* and in range
Valid(r) ==
    /\ r.fare_amount # Null /\ r.fare_amount[1] > 0
    /\ r.total_amount # Null /\ r.total_amount[1] > 0
    /\ r.trip_distance # Null /\ r.trip_distance[1] > 0 /\ r.trip_distance[1] < 1000
    /\ r.passenger_count # Null /\ r.passenger_count[1] > 0

\* C1: clean_data returns exactly the rows of its input that have fare_amount > 0,
\* total_amount > 0, 0 < trip_distance < 1000 and passenger_count > 0, a NULL in
\* one of the four excluding the row; no other column decides.
C1_CleanKeepsExactlyValid ==
    /\ YellowCleaned => yellow_taxi_cleaned = SelectSeq(yellow_taxi_enriched, Valid)
    /\ GreenCleaned => green_taxi_cleaned = SelectSeq(green_taxi_enriched, Valid)

\* the Cleaner has dropped a trip of exactly 1000 miles and kept another trip
C1_Witness ==
    /\ GreenCleaned
    /\ \E i \in 1..Len(green_taxi_enriched) :
          /\ green_taxi_enriched[i].trip_distance = Some(1000)
          /\ green_taxi_enriched[i].fare_amount = Some(90)
    /\ green_taxi_cleaned # <<>>
    /\ Len(green_taxi_cleaned) < Len(green_taxi_enriched)

\* C4: every aggregator call of the driver receives clean_data of the enriched
\* set of its dataset, so no row with passenger_count = 0 reaches an aggregator.
C4_AggregatorsGetCleaned ==
    agg_call.fn # "none" =>
        /\ agg_call.fn \in Aggregators
        /\ agg_call.df =
              clean_data(join_look_up_with_cities(RawTrips(agg_call.dataset), lookup_df))
        /\ \A i \in 1..Len(agg_call.df) : agg_call.df[i].passenger_count # Some(0)

\* the last aggregator has run on the green set, whose raw file held a trip
\* with no passenger
C4_Witness ==
    /\ agg_call.fn = "calculate_tip_correlations"
    /\ agg_call.dataset = "green"
    /\ \E i \in 1..Len(green_taxi_df) : green_taxi_df[i].passenger_count = Some(0)

MostExpensiveTitles ==
    {"Yellow Taxi Most Expensive Route:", "Green Taxi Most Expensive Route:"}

\* the three trips with fares 10, 50, 5 and distances 2, 3, 800
ExampleTrips(dataset) == SubSeq(ReportTrips(dataset), 1, 3)

\* C8: on a non-empty cleaned set get_most_expensive_route reports the zones and
\* the fare of a cleaned row whose fare is the highest of the cleaned set; for
\* the fares 10, 50, 5 it reports the zones of the 50 trip.
C8_MostExpensiveIsCleanedMax ==
    (console.title \in MostExpensiveTitles /\ raised = "none") =>
        LET df == clean_data(join_look_up_with_cities(RawTrips(agg_call.dataset), lookup_df))
        IN  /\ \E i \in 1..Len(df) :
                  /\ df[i].PU_Zone = console.body.PU_Zone
                  /\ df[i].DO_Zone = console.body.DO_Zone
                  /\ df[i].fare_amount = console.body.fare_amount
            /\ \A i \in 1..Len(df) : df[i].fare_amount[1] <= console.body.fare_amount[1]
            /\ RawTrips(agg_call.dataset) = ExampleTrips(agg_call.dataset) =>
                  console.body = [PU_Zone |-> Some("B"), DO_Zone |-> Some("A"),
                                  fare_amount |-> Some(50)]

\* the raw file held a 90 fare on a 1000 mile trip, and the report names a 50 fare
C8_Witness ==
    /\ console.title = "Yellow Taxi Most Expensive Route:"
    /\ raised = "none"
    /\ \E i \in 1..Len(yellow_taxi_df) : yellow_taxi_df[i].fare_amount = Some(90)
    /\ console.body.fare_amount = Some(50)

\* C9: a "first ranked row" aggregator that is handed an empty cleaned set
\* completes without raising, and the driver goes on.
C9_EmptySetDoesNotRaise ==
    (agg_call.fn \in {"get_most_expensive_route", "get_longest_trips"}
        /\ agg_call.df = <<>>) => (raised = "none" /\ pc # "aborted")

----------------------------------------------------------------------------
(* Properties of the Lookup Join, under SpecJoin                           *)

YellowJoined == pc # "join_yellow"

GreenJoined == pc \notin {"join_yellow", "join_green"}

\* the number of lookup rows that carry the identifier id
Occurrences(lookup, id) ==
    Cardinality({ i \in 1..Len(lookup) : id # Null /\ lookup[i].LocationID = id })

\* no LocationID occurs more than once in the lookup (a NULL is no identifier)
UniqueIdentifiers(lookup) ==
    \A i, j \in 1..Len(lookup) :
        (lookup[i].LocationID # Null /\ lookup[i].LocationID = lookup[j].LocationID)
            => i = j

\* some trip points, on either side, at an identifier the lookup holds more than once
ReferencesDuplicate(df, lookup) ==
    \E i \in 1..Len(df) :
        \/ Occurrences(lookup, df[i].PULocationID) > 1
        \/ Occurrences(lookup, df[i].DOLocationID) > 1

\* C2 as stated: the joined set has as many rows as the trip set exactly when
\* the lookup identifiers are unique.
C2_SameCountIffUnique ==
    /\ YellowJoined =>
          (Len(yellow_taxi_enriched) = Len(yellow_taxi_df) <=> UniqueIdentifiers(lookup_df))
    /\ GreenJoined =>
          (Len(green_taxi_enriched) = Len(green_taxi_df) <=> UniqueIdentifiers(lookup_df))

JoinCount(df, enriched, lookup) ==
    /\ Len(enriched) >= Len(df)
    /\ Len(enriched) = Len(df) <=> ~ReferencesDuplicate(df, lookup)
    /\ UniqueIdentifiers(lookup) => Len(enriched) = Len(df)

\* C2 amended: the join never loses a row; the joined set has as many rows as
\* the trip set exactly when no trip's pickup or drop-off identifier occurs more
\* than once in the lookup, so in particular whenever the identifiers are unique.
C2_SameCountIffNoDuplicateReferenced ==
    /\ YellowJoined => JoinCount(yellow_taxi_df, yellow_taxi_enriched, lookup_df)
    /\ GreenJoined => JoinCount(green_taxi_df, green_taxi_enriched, lookup_df)

\* a lookup that holds identifier 1 twice, joined to a trip that points at it
\* on both sides: one trip, four rows
C2_Witness ==
    /\ GreenJoined
    /\ ~UniqueIdentifiers(lookup_df)
    /\ Len(green_taxi_df) = 1
    /\ Len(green_taxi_enriched) = 4

\* the input row an enriched row extends
TripOf(o) == [c \in DOMAIN o \ {"PU_Zone", "PU_Borough", "DO_Zone", "DO_Borough"} |-> o[c]]

\* zone and borough are those of a lookup row for id, or NULL when there is none
Resolved(lookup, id, zone, borough) ==
    IF \E i \in 1..Len(lookup) : id # Null /\ lookup[i].LocationID = id
    THEN \E i \in 1..Len(lookup) :
            /\ lookup[i].LocationID = id
            /\ lookup[i].Zone = zone
            /\ lookup[i].Borough = borough
    ELSE zone = Null /\ borough = Null

Enriches(df, enriched, lookup) ==
    /\ \A i \in 1..Len(df) : \E k \in 1..Len(enriched) : TripOf(enriched[k]) = df[i]
    /\ \A k \in 1..Len(enriched) :
          /\ \E i \in 1..Len(df) : TripOf(enriched[k]) = df[i]
          /\ Resolved(lookup, enriched[k].PULocationID,
                      enriched[k].PU_Zone, enriched[k].PU_Borough)
          /\ Resolved(lookup, enriched[k].DOLocationID,
                      enriched[k].DO_Zone, enriched[k].DO_Borough)

\* C3: the join keeps every trip and resolves each side on its own: PU_* from
\* the lookup row of PULocationID, DO_* from that of DOLocationID, NULL on a
\* side without a lookup row, which neither drops the trip nor voids the other side.
C3_EachSideResolved ==
    /\ YellowJoined => Enriches(yellow_taxi_df, yellow_taxi_enriched, lookup_df)
    /\ GreenJoined => Enriches(green_taxi_df, green_taxi_enriched, lookup_df)

\* a trip whose pickup has no lookup row and whose drop-off has one
C3_Witness ==
    /\ YellowJoined
    /\ \E k \in 1..Len(yellow_taxi_enriched) :
          /\ yellow_taxi_enriched[k].PULocationID = Some(2)
          /\ yellow_taxi_enriched[k].PU_Zone = Null
          /\ yellow_taxi_enriched[k].PU_Borough = Null
          /\ yellow_taxi_enriched[k].DO_Zone = Some("A")
          /\ yellow_taxi_enriched[k].DO_Borough = Some("X")

----------------------------------------------------------------------------
(* Properties of the hourly counts, under SpecHourly                       *)

RECURSIVE SumCounts(_)
SumCounts(rows) == IF rows = <<>> THEN 0 ELSE Head(rows).count + SumCounts(Tail(rows))

\* the last aggregator call was get_hourly_pickup_dropoff_counts, and
\* hourly_pickup and hourly_dropoff hold what it returned
HourlyReturned == agg_call.fn = "get_hourly_pickup_dropoff_counts"

\* C5: the Pickup_Count values returned for a cleaned set add up to the number
\* of its rows, the rows with a NULL pickup timestamp included.
C5_PickupCountsSumToSize ==
    HourlyReturned =>
        /\ agg_call.df = AggregatorInput(agg_call.dataset)
        /\ SumCounts(hourly_pickup) = Len(agg_call.df)

\* hourly counts of a cleaned set of three trips, one without pickup timestamp
C5_Witness ==
    /\ HourlyReturned
    /\ Len(agg_call.df) = 3
    /\ \E i \in 1..3 : agg_call.df[i][PickupColumn(agg_call.dataset)] = Null
    /\ Len(hourly_pickup) = 3

\* the hours of day h for which some row's timestamp falls in [h:00:00, h:59:59]
HoursOfDayIn(df, time_col) ==
    { h \in 0..23 : \E i \in 1..Len(df) :
          /\ df[i][time_col] # Null
          /\ h * 3600 <= df[i][time_col][1] % 86400
          /\ df[i][time_col][1] % 86400 < (h + 1) * 3600 }

\* rows hold one row per hour, in ascending hour order
OnePerHourAscending(rows) ==
    \A i, j \in 1..Len(rows) :
        i < j => (rows[j].Hour # Null /\ (rows[i].Hour = Null \/ rows[i].Hour[1] < rows[j].Hour[1]))

HoursWithin0To23(df, time_col, rows) ==
    /\ \A i \in 1..Len(rows) : rows[i].Hour # Null /\ rows[i].Hour[1] \in 0..23
    /\ { rows[i].Hour : i \in 1..Len(rows) } = { Some(h) : h \in HoursOfDayIn(df, time_col) }
    /\ OnePerHourAscending(rows)

\* C6 as stated: the Hour values returned are exactly the hours of day in the
\* data, each in 0..23, one row per hour, ascending, also with NULL timestamps.
C6_HoursWithin0To23 ==
    HourlyReturned =>
        /\ HoursWithin0To23(agg_call.df, PickupColumn(agg_call.dataset), hourly_pickup)
        /\ HoursWithin0To23(agg_call.df, DropoffColumn(agg_call.dataset), hourly_dropoff)

HoursOrNull(df, time_col, rows) ==
    /\ { rows[i].Hour : i \in 1..Len(rows) } =
          { Some(h) : h \in HoursOfDayIn(df, time_col) }
          \cup (IF \E i \in 1..Len(df) : df[i][time_col] = Null THEN {Null} ELSE {})
    /\ OnePerHourAscending(rows)

\* C6 amended: the Hour values returned are exactly the hours of day in the
\* data, each in 0..23, plus one row with a NULL Hour when some cleaned row has
\* a NULL timestamp; one row per value, ascending, the NULL row first.
C6_HoursWithin0To23OrNull ==
    HourlyReturned =>
        /\ HoursOrNull(agg_call.df, PickupColumn(agg_call.dataset), hourly_pickup)
        /\ HoursOrNull(agg_call.df, DropoffColumn(agg_call.dataset), hourly_dropoff)

\* a NULL row comes first, and a timestamp past the first day counts in hour 1
C6_Witness ==
    /\ HourlyReturned
    /\ Len(hourly_pickup) = 3
    /\ hourly_pickup[1].Hour = Null
    /\ hourly_pickup[2].Hour = Some(1)
    /\ hourly_pickup[3].Hour = Some(23)
    /\ \E i \in 1..Len(agg_call.df) :
          agg_call.df[i][PickupColumn(agg_call.dataset)] = Some(90000)

----------------------------------------------------------------------------
(* Properties of the busiest zones, under SpecTop                          *)

Top5Titles == {"Yellow Taxi Top 5 Busiest Zones:", "Green Taxi Top 5 Busiest Zones:"}

\* the number of rows of df picked up in zone z
Pickups(df, z) == Cardinality({ i \in 1..Len(df) : df[i].PU_Zone = z })

PickupZones(df) == { df[i].PU_Zone : i \in 1..Len(df) }

\* C7: get_top_5_busiest_area returns min(5, number of distinct PU_Zone values)
\* rows, a NULL zone counting as a value; each row carries the number of cleaned
\* rows of its zone; the counts do not increase down the table; and no zone left
\* out has more pickups than a zone in it.
C7_Top5Busiest ==
    console.title \in Top5Titles =>
        LET df == AggregatorInput(agg_call.dataset)
            table == console.body
            shown == { table[i].PU_Zone : i \in 1..Len(table) }
        IN  /\ Len(table) = Min(5, Cardinality(PickupZones(df)))
            /\ Len(table) <= 5
            /\ Cardinality(shown) = Len(table)
            /\ shown \subseteq PickupZones(df)
            /\ \A i \in 1..Len(table) : table[i].count = Pickups(df, table[i].PU_Zone)
            /\ \A i \in 1..Len(table) - 1 : table[i].count >= table[i + 1].count
            /\ \A z \in PickupZones(df) \ shown :
                  \A i \in 1..Len(table) : Pickups(df, z) <= table[i].count

\* six zones, the NULL zone among them, with different numbers of pickups: five
\* rows are shown and the zone with a single pickup is left out
C7_Witness ==
    /\ console.title = "Yellow Taxi Top 5 Busiest Zones:"
    /\ Cardinality(PickupZones(yellow_taxi_cleaned)) = 6
    /\ Len(console.body) = 5
    /\ console.body[1].count = 2
    /\ console.body[5].count = 2
    /\ \E z \in PickupZones(yellow_taxi_cleaned) : Pickups(yellow_taxi_cleaned, z) = 1

----------------------------------------------------------------------------
(* Properties of the crowded places, under SpecCrowded                     *)

CrowdedTitles ==
    {"Yellow Taxi Crowded Places Per Hour:", "Green Taxi Crowded Places Per Hour:"}

\* the number of rows of df in hour h of time_col and in zone z of zone_col
InHourAndZone(df, time_col, zone_col, h, z) ==
    Cardinality({ i \in 1..Len(df) :
                    /\ df[i][time_col] # Null
                    /\ (df[i][time_col][1] % 86400) \div 3600 = h
                    /\ df[i][zone_col] = z })

\* for every hour of the data, shown has a row of that hour for a zone no other
\* zone outnumbers in that hour
ShowsBusiestOfEveryHour(df, time_col, zone_col, shown) ==
    \A h \in HoursOfDayIn(df, time_col) :
        \E k \in 1..Len(shown) :
            /\ shown[k].Hour = Some(h)
            /\ shown[k].count = InHourAndZone(df, time_col, zone_col, h, shown[k].Zone)
            /\ \A i \in 1..Len(df) :
                  InHourAndZone(df, time_col, zone_col, h, df[i][zone_col]) <= shown[k].count

\* C10: for every hour of the cleaned set, the printed pickup rows hold that
\* hour's busiest PU_Zone and the printed drop-off rows that hour's busiest DO_Zone.
C10_BusiestZoneOfEveryHourPrinted ==
    console.title \in CrowdedTitles =>
        LET df == AggregatorInput(agg_call.dataset)
        IN  /\ ShowsBusiestOfEveryHour(df, PickupColumn(agg_call.dataset), "PU_Zone",
                                       console.body.pickup)
            /\ ShowsBusiestOfEveryHour(df, DropoffColumn(agg_call.dataset), "DO_Zone",
                                       console.body.dropoff)

====
